---------------------------- MODULE Spec2Model ----------------------------
(***************************************************************************)
(* A model of app/features/worksheet_generator/tools.py: the composable    *)
(* RAGRunnable stage, the PDF loaders, URLLoader, RAGpipeline and the      *)
(* bounded retry loop of QuizBuilder.create_questions.                     *)
(*                                                                         *)
(* Each component is a small state machine with its own specification:     *)
(*   Spec          QuizBuilder.create_questions                            *)
(*   SpecRunnable  RAGRunnable.__or__ / __call__                           *)
(*   SpecPipeline  RAGpipeline.compile / __call__ / load_PDFs              *)
(*   SpecLocal     LocalFileLoader.load                                    *)
(*   SpecBytes     BytesFilePDFLoader.load                                 *)
(*   SpecURL       URLLoader.load                                          *)
(*   SpecValidate  QuizBuilder.validate_response                           *)
(*   SpecText      TextOrPDFLoader.load                                    *)
(* External capabilities (the chain, the splitter, the vector store, the   *)
(* PDF reader, the HTTP client) are nondeterministic: every outcome they   *)
(* can produce is a possible step.                                         *)
(***************************************************************************)
EXTENDS Integers, Sequences, FiniteSets, TLC

VARIABLES
    \* ---- QuizBuilder.create_questions
    qpc,                  \* position: "idle", "loop", "delete", "return", "done", "raised"
    num_questions,        \* the argument of create_questions
    generated_questions,  \* the local list of accepted responses
    attempts,             \* the local attempt counter
    max_attempts,         \* the local bound num_questions * 5
    chainCalls,           \* how often chain.invoke was called
    compileCalls,         \* how often self.compile() was called
    deleteCalls,          \* how often vectorstore.delete_collection() was called
    chainCallsAtDelete,   \* chainCalls when delete_collection was last called
    wellFormedSeen,       \* how many chain outputs so far were well-formed questions
    validHistory,         \* the well-formed chain outputs so far, as the chain returned them
    qresult,              \* what create_questions returned
    \* ---- RAGRunnable
    rpc,                  \* position: "off", "new", "built", "done"
    rstages,              \* the plain functions f, g, h, ... to be chained
    rx,                   \* the argument the composed runnable is called with
    rpipe,                \* the RAGRunnable composed so far
    rbuilt,               \* how many of rstages rpipe is composed of
    rout,                 \* what calling rpipe returned
    rtrace,               \* the stage calls made, in order, each with its argument
    \* ---- RAGpipeline
    ppc,                  \* position: "off", "idle", "run", "done", "raised"
    pattrs,               \* the attributes load_PDFs, split_loaded_documents, create_vectorstore
    pcompiles,            \* how often compile() was called
    pmode,                \* "invoke": pipeline(files); "manual": the three calls by hand
    pfiles,               \* the argument of the call
    pplan,                \* the methods still to be called, in call order
    parg,                 \* the value handed to the next method
    ptrace,               \* the method calls made: method, argument, return value
    pvectorstore,         \* self.vectorstore
    presult,              \* what the call returned
    pstageError,          \* the exception a capability (loader, splitter, store) raised
    perror,               \* the exception the caller received
    plogged,              \* how often load_PDFs logged a loader error
    pnextId,              \* the identity the next exception object gets
    \* ---- LocalFileLoader
    lpc,                  \* position: "off", "new", "loop", "returned", "raised"
    linput,               \* the file_paths argument: a list of paths or one path string
    expected_file_type,   \* self.expected_file_type
    file_paths,           \* self.file_paths
    li,                   \* the index of the next path of the for loop
    lopened,              \* the paths opened so far, in order
    ldocuments,           \* the local list documents
    lresult,              \* the returned list
    lerror,               \* the exception load raised
    \* ---- BytesFilePDFLoader
    bpc,                  \* position: "off", "loop", "returned", "raised"
    bfiles,               \* self.files: the file_type tag of each (file, file_type) pair
    bi,                   \* the index of the next pair of the for loop
    bparsed,              \* how many of the files PdfReader was given
    bdocuments,           \* the local list documents
    bresult,              \* the returned list
    berror,               \* the exception load raised
    \* ---- URLLoader
    upc,                  \* position: "off", "new", "returned", "raised"
    uverbose,             \* self.verbose
    uurl,                 \* the argument url: one reference, or the list of references
    ugets,                \* how often requests.get was called
    udebugLogged,         \* how often the success was logged (verbose only)
    uerrorLogged,         \* how often a failure was logged
    uresult,              \* what load returned
    uerror,               \* the exception load raised
    \* ---- QuizBuilder.validate_response
    vpc,                  \* position: "off", "new", "returned", "raised"
    vresponse,            \* the argument response
    vresult,              \* what validate_response returned
    \* ---- TextOrPDFLoader
    tpc,                  \* position: "off", "new", "returned", "raised"
    ttext,                \* self.text: None or a string
    tfile,                \* self.file: None or an upload whose PDF has pages
    tresult,              \* the returned string
    terror                \* the exception load raised

qvars == <<qpc, num_questions, generated_questions, attempts, max_attempts,
           chainCalls, compileCalls, deleteCalls, chainCallsAtDelete,
           wellFormedSeen, validHistory, qresult>>

rvars == <<rpc, rstages, rx, rpipe, rbuilt, rout, rtrace>>

pvars == <<ppc, pattrs, pcompiles, pmode, pfiles, pplan, parg, ptrace,
           pvectorstore, presult, pstageError, perror, plogged, pnextId>>

lvars == <<lpc, linput, expected_file_type, file_paths, li, lopened, ldocuments,
           lresult, lerror>>

bvars == <<bpc, bfiles, bi, bparsed, bdocuments, bresult, berror>>

uvars == <<upc, uverbose, uurl, ugets, udebugLogged, uerrorLogged, uresult, uerror>>

vvars == <<vpc, vresponse, vresult>>

tvars == <<tpc, ttext, tfile, tresult, terror>>

vars == <<qvars, rvars, pvars, lvars, bvars, uvars, vvars, tvars>>

----------------------------------------------------------------------------
(* Python values, as far as the code inspects them.                         *)

\* a scalar: its Python type and its text
PyStr(s) == [ty |-> "str", s |-> s]
PyInt(s) == [ty |-> "int", s |-> s]

\* one entry of a choices mapping (an ordered dict is a sequence of entries)
Entry(k, v) == [key |-> k, value |-> v]

\* a chain output: kind is its Python type; for a dict, keys are its keys and
\* choices / choicesKind the value stored under 'choices'
Candidate(kind, keys, choicesKind, choices) ==
    [kind |-> kind, keys |-> keys, choicesKind |-> choicesKind, choices |-> choices]

RequiredKeys == {"question", "choices", "answer", "explanation"}

ParisRome == <<Entry(PyStr("A"), PyStr("Paris")), Entry(PyStr("B"), PyStr("Rome"))>>
RomeParis == <<Entry(PyStr("B"), PyStr("Rome")), Entry(PyStr("A"), PyStr("Paris"))>>

ValidA      == Candidate("dict", RequiredKeys, "dict", ParisRome)
ValidB      == Candidate("dict", RequiredKeys \cup {"hint"}, "dict", RomeParis)
MissingKey  == Candidate("dict", RequiredKeys \ {"answer"}, "dict", ParisRome)
ListChoices == Candidate("dict", RequiredKeys, "list", ParisRome)
IntValue    == Candidate("dict", RequiredKeys, "dict",
                         <<Entry(PyStr("A"), PyInt("1"))>>)
NotADict    == Candidate("str", {}, "none", <<>>)

\* the chain outputs that are well-formed questions
WellFormed == {ValidA, ValidB}

\* what the mocked chain can return
ChainOutputs == {ValidA, ValidB, MissingKey, ListChoices, IntValue, NotADict}

----------------------------------------------------------------------------
(* QuizBuilder                                                              *)

MaxQuestions == 10
AttemptFactor == 5

\* the largest num_questions tried (above MaxQuestions, so the cap is hit)
MaxNum == 12

NumInputs == 0 .. MaxNum

\* a validate_response that checks the values of choices but not its keys
validate_response_values_only(response) ==
    /\ response.kind = "dict"
    /\ RequiredKeys \subseteq response.keys
    /\ response.choicesKind = "dict"
    /\ \A i \in 1 .. Len(response.choices) : response.choices[i].value.ty = "str"

\* a validate_response that accepts a response only when it has exactly the four keys
validate_response_exact_keys(response) ==
    /\ response.kind = "dict"
    /\ response.keys = RequiredKeys
    /\ response.choicesKind = "dict"
    /\ \A i \in 1 .. Len(response.choices) :
          /\ response.choices[i].key.ty = "str"
          /\ response.choices[i].value.ty = "str"

\* validate_response
validate_response(response) ==
    IF response.kind = "dict"
    THEN IF RequiredKeys \subseteq response.keys
         THEN IF response.choicesKind = "dict"
              THEN \A i \in 1 .. Len(response.choices) :
                      /\ response.choices[i].key.ty = "str"
                      /\ response.choices[i].value.ty = "str"
              ELSE FALSE
         ELSE FALSE
    ELSE FALSE

\* a format_choices that lists the items last to first
format_choices_reversed(choices) ==
    [i \in 1 .. Len(choices) |->
        [key |-> choices[Len(choices) + 1 - i].key,
         value |-> choices[Len(choices) + 1 - i].value]]

\* format_choices: the mapping's items, in the mapping's order, as a list
format_choices(choices) ==
    [i \in 1 .. Len(choices) |-> [key |-> choices[i].key, value |-> choices[i].value]]

\* response["choices"] = self.format_choices(response["choices"])
Reshaped(response) ==
    [response EXCEPT !.choicesKind = "list", !.choices = format_choices(response.choices)]

\* a cap check that is off by one
ExceedsCapOffByOne(n) == n > MaxQuestions + 1

\* num_questions > 10
ExceedsCap(n) == n > MaxQuestions

\* max_attempts = num_questions * 5
MaxAttempts(n) == n * AttemptFactor

\* a while condition that allows one attempt too many
LoopCondInclusive(gen, n, att, maxAtt) == Len(gen) < n /\ att <= maxAtt

\* the while condition
LoopCond(gen, n, att, maxAtt) == Len(gen) < n /\ att < maxAtt

\* generated_questions[:num_questions]
Truncate(gen, n) ==
    IF n >= 0
    THEN SubSeq(gen, 1, IF n < Len(gen) THEN n ELSE Len(gen))
    ELSE SubSeq(gen, 1, IF Len(gen) + n > 0 THEN Len(gen) + n ELSE 0)

NoResult    == [kind |-> "none", message |-> "", data |-> "", questions |-> <<>>]
CapPayload  == [kind |-> "dict", message |-> "error",
                data |-> "Number of questions cannot exceed 10", questions |-> <<>>]
ListResult(qs) == [kind |-> "list", message |-> "", data |-> "", questions |-> qs]

QuizInit ==
    /\ qpc = "idle"
    /\ num_questions \in NumInputs
    /\ generated_questions = <<>>
    /\ attempts = 0
    /\ max_attempts = 0
    /\ chainCalls = 0
    /\ compileCalls = 0
    /\ deleteCalls = 0
    /\ chainCallsAtDelete = 0
    /\ wellFormedSeen = 0
    /\ validHistory = <<>>
    /\ qresult = NoResult

\* create_questions is entered with more than the cap: the payload is returned
CapExceeded ==
    /\ qpc = "idle"
    /\ ExceedsCap(num_questions)
    /\ qpc' = "done"
    /\ qresult' = CapPayload
    /\ UNCHANGED <<num_questions, generated_questions, attempts, max_attempts,
                   chainCalls, compileCalls, deleteCalls, chainCallsAtDelete, wellFormedSeen, validHistory>>

\* create_questions is entered within the cap: compile, initialise the locals
Enter ==
    /\ qpc = "idle"
    /\ ~ExceedsCap(num_questions)
    /\ compileCalls' = compileCalls + 1
    /\ generated_questions' = <<>>
    /\ attempts' = 0
    /\ max_attempts' = MaxAttempts(num_questions)
    /\ qpc' = "loop"
    /\ UNCHANGED <<num_questions, chainCalls, deleteCalls, chainCallsAtDelete,
                   wellFormedSeen, validHistory, qresult>>

\* one iteration of the while loop whose chain.invoke returns a response
Iterate ==
    /\ qpc = "loop"
    /\ LoopCond(generated_questions, num_questions, attempts, max_attempts)
    /\ \E response \in ChainOutputs :
          /\ chainCalls' = chainCalls + 1
          /\ wellFormedSeen' = wellFormedSeen + (IF response \in WellFormed THEN 1 ELSE 0)
          /\ validHistory' = IF response \in WellFormed
                             THEN Append(validHistory, response)
                             ELSE validHistory
          /\ generated_questions' =
                IF validate_response(response)
                THEN Append(generated_questions, Reshaped(response))
                ELSE generated_questions
    /\ attempts' = attempts + 1
    /\ UNCHANGED <<qpc, num_questions, max_attempts, compileCalls, deleteCalls,
                   chainCallsAtDelete, qresult>>

\* a chain.invoke that raises inside a try whose finally deletes the collection
ChainRaisesCleansUp ==
    /\ qpc = "loop"
    /\ LoopCond(generated_questions, num_questions, attempts, max_attempts)
    /\ chainCalls' = chainCalls + 1
    /\ deleteCalls' = deleteCalls + 1
    /\ qpc' = "raised"
    /\ UNCHANGED <<num_questions, generated_questions, attempts, max_attempts,
                   compileCalls, chainCallsAtDelete,
                   wellFormedSeen, validHistory, qresult>>

\* one iteration of the while loop whose chain.invoke raises
ChainRaises ==
    /\ qpc = "loop"
    /\ LoopCond(generated_questions, num_questions, attempts, max_attempts)
    /\ chainCalls' = chainCalls + 1
    /\ qpc' = "raised"
    /\ UNCHANGED <<num_questions, generated_questions, attempts, max_attempts,
                   compileCalls, deleteCalls, chainCallsAtDelete,
                   wellFormedSeen, validHistory, qresult>>

\* the while condition is false: leave the loop
ExitLoop ==
    /\ qpc = "loop"
    /\ ~LoopCond(generated_questions, num_questions, attempts, max_attempts)
    /\ qpc' = "delete"
    /\ UNCHANGED <<num_questions, generated_questions, attempts, max_attempts,
                   chainCalls, compileCalls, deleteCalls, chainCallsAtDelete,
                   wellFormedSeen, validHistory, qresult>>

\* a create_questions that forgets to delete the collection
DeleteCollectionSkipped ==
    /\ qpc = "delete"
    /\ qpc' = "return"
    /\ UNCHANGED <<num_questions, generated_questions, attempts, max_attempts,
                   chainCalls, compileCalls, deleteCalls, chainCallsAtDelete,
                   wellFormedSeen, validHistory, qresult>>

\* self.vectorstore.delete_collection()
DeleteCollection ==
    /\ qpc = "delete"
    /\ deleteCalls' = deleteCalls + 1
    /\ chainCallsAtDelete' = chainCalls
    /\ qpc' = "return"
    /\ UNCHANGED <<num_questions, generated_questions, attempts, max_attempts,
                   chainCalls, compileCalls, wellFormedSeen, validHistory, qresult>>

\* return generated_questions[:num_questions]
Return ==
    /\ qpc = "return"
    /\ qresult' = ListResult(Truncate(generated_questions, num_questions))
    /\ qpc' = "done"
    /\ UNCHANGED <<num_questions, generated_questions, attempts, max_attempts,
                   chainCalls, compileCalls, deleteCalls, chainCallsAtDelete, wellFormedSeen, validHistory>>

\* the steps of a create_questions call
QuizNext ==
    \/ CapExceeded
    \/ Enter
    \/ Iterate
    \/ ChainRaises
    \/ ExitLoop
    \/ DeleteCollection
    \/ Return

----------------------------------------------------------------------------
(* Claims about QuizBuilder.create_questions, checked under Spec            *)

InCap == num_questions \in 1 .. MaxQuestions

QuizRunning == qpc \in {"idle", "loop", "delete", "return"}

\* C1: with a chain whose every output is invalid, create_questions(k),
\* 1 <= k <= 10, ends after exactly 5k chain invocations with an empty list;
\* the chain is never invoked more than 5k times and a running call can
\* always take its next step.
C1_BoundedRetry ==
    /\ InCap => chainCalls <= 5 * num_questions
    /\ QuizRunning => ENABLED QuizNext
    /\ (qpc = "done" /\ InCap /\ wellFormedSeen = 0) =>
          /\ chainCalls = 5 * num_questions
          /\ qresult.kind = "list"
          /\ qresult.questions = <<>>

C1_Witness ==
    /\ qpc = "done"
    /\ num_questions = MaxQuestions
    /\ wellFormedSeen = 0
    /\ chainCalls = 50
    /\ qresult.questions = <<>>

\* C2: with a chain whose every output is a well-formed question,
\* create_questions(k) returns a list of exactly k questions, 1 <= k <= 10.
C2_ExactCount ==
    (qpc = "done" /\ InCap /\ wellFormedSeen = chainCalls) =>
        /\ qresult.kind = "list"
        /\ Len(qresult.questions) = num_questions

C2_Witness ==
    /\ qpc = "done"
    /\ num_questions = MaxQuestions
    /\ wellFormedSeen = chainCalls
    /\ Len(qresult.questions) = MaxQuestions

\* C3: for num_questions > 10 the call returns the payload
\* {message: "error", data: "Number of questions cannot exceed 10"} as a value
\* (it does not raise), and the chain is neither built nor invoked.
C3_CapPayload ==
    num_questions > 10 =>
        /\ chainCalls = 0
        /\ compileCalls = 0
        /\ qpc \in {"idle", "done"}
        /\ qpc = "done" =>
              /\ qresult.kind = "dict"
              /\ qresult.message = "error"
              /\ qresult.data = "Number of questions cannot exceed 10"

C3_Witness ==
    /\ qpc = "done"
    /\ num_questions = 11
    /\ qresult.kind = "dict"
    /\ chainCalls = 0

\* C4: a call that returns its list (all questions or a shortfall) has called
\* delete_collection exactly once, after its last chain invocation; while the
\* loop runs the collection is not yet deleted.
C4_DeleteOnce ==
    /\ deleteCalls <= 1
    /\ qpc \in {"loop", "delete"} => deleteCalls = 0
    /\ (qpc = "done" /\ qresult.kind = "list") =>
          /\ deleteCalls = 1
          /\ chainCallsAtDelete = chainCalls

C4_Witness ==
    /\ qpc = "done"
    /\ qresult.kind = "list"
    /\ Len(qresult.questions) > 0
    /\ Len(qresult.questions) < num_questions
    /\ deleteCalls = 1
    /\ chainCallsAtDelete = 5 * num_questions

\* the question as the chain returned it, with its choices mapping turned
\* into the list of the mapping's items in the mapping's order
IsReshapedFrom(question, output) ==
    /\ question.kind = output.kind
    /\ question.keys = output.keys
    /\ question.choicesKind = "list"
    /\ Len(question.choices) = Len(output.choices)
    /\ \A j \in 1 .. Len(output.choices) :
          /\ DOMAIN question.choices[j] = {"key", "value"}
          /\ question.choices[j].key = output.choices[j].key
          /\ question.choices[j].value = output.choices[j].value

\* C14: for any sequence of valid and invalid chain outputs and 1 <= k <= 10:
\* while the loop runs accepted <= k and attempts <= 5k; the chain is invoked
\* again as long as fewer than k outputs were valid and fewer than 5k were
\* made, and never once the k-th valid output has come, so a call that
\* returns has made exactly 5k invocations when fewer than k were valid; the
\* accepted questions, and the result, are exactly the valid outputs in the
\* order they came, each with its choices reshaped to the ordered list of
\* {key, value} items.
C14_LoopAndResult ==
    (InCap /\ qpc \in {"loop", "delete", "return", "done"}) =>
        /\ Len(generated_questions) <= num_questions
        /\ attempts <= 5 * num_questions
        /\ attempts = chainCalls
        /\ wellFormedSeen = Len(validHistory)
        /\ Len(generated_questions) = Len(validHistory)
        /\ \A i \in 1 .. Len(validHistory) :
              IsReshapedFrom(generated_questions[i], validHistory[i])
        /\ (qpc = "loop" /\ Len(validHistory) < num_questions
                /\ chainCalls < 5 * num_questions) => ENABLED Iterate
        /\ Len(validHistory) >= num_questions => ~ENABLED (Iterate \/ ChainRaises)
        /\ qpc \in {"delete", "return", "done"} =>
              \/ Len(validHistory) = num_questions
              \/ Len(validHistory) < num_questions /\ chainCalls = 5 * num_questions
        /\ qpc = "done" =>
              /\ qresult.kind = "list"
              /\ qresult.questions = generated_questions

C14_Witness ==
    /\ qpc = "done"
    /\ num_questions = 3
    /\ chainCalls = 5
    /\ validHistory = <<ValidB, ValidA, ValidB>>
    /\ Len(qresult.questions) = 3
    /\ qresult.questions[1].choices = <<[key |-> PyStr("B"), value |-> PyStr("Rome")],
                                        [key |-> PyStr("A"), value |-> PyStr("Paris")]>>

\* C15: when a chain invocation raises, the call ends there: nothing is
\* returned (the questions accepted so far stay in the lost local list), no
\* further step of the call is taken, and delete_collection was not called.
C15_RaiseLeavesCollection ==
    qpc = "raised" =>
        /\ qresult = NoResult
        /\ deleteCalls = 0
        /\ chainCalls = attempts + 1
        /\ ~ENABLED QuizNext

C15_Witness ==
    /\ qpc = "raised"
    /\ Len(generated_questions) = 2
    /\ chainCalls = 4
    /\ deleteCalls = 0
    /\ qresult.kind = "none"

----------------------------------------------------------------------------
(* RAGRunnable                                                              *)

\* how many values a stage function is defined on
ValCount == 3

\* the longest chain f | g | h | ... composed
MaxStages == 3

Vals == 0 .. (ValCount - 1)

\* the plain functions wrapped as stages (sample_func of the tests is Inc)
Inc  == [v \in Vals |-> (v + 1) % ValCount]
Dbl  == [v \in Vals |-> (2 * v) % ValCount]
Zero == [v \in Vals |-> 0]
Flip == [v \in Vals |-> (ValCount - 1) - v]

StageFuncs == {Inc, Dbl, Zero, Flip}

\* a plain callable: the i-th function of rstages
Stage(i) == <<"stage", i>>

\* RAGRunnable.__init__: the object holds func
RAGRunnable(func) == <<"RAGRunnable", func>>

\* the closure chained_func of __or__, holding self.func and other
ChainedFunc(selfFunc, other) == <<"chained_func", selfFunc, other>>

\* an __or__ that chains in the wrong order: self.func(other(...))
OrSwapped(self, other) == RAGRunnable(ChainedFunc(other, self[2]))

\* RAGRunnable.__or__
Or(self, other) == RAGRunnable(ChainedFunc(self[2], other))

\* calling a callable c with x: the value returned and the stage calls made
RECURSIVE Call(_, _, _)
Call(c, x, fs) ==
    CASE c[1] = "stage" ->
            [out |-> fs[c[2]][x], trace |-> <<[stage |-> c[2], arg |-> x]>>]
      [] c[1] = "RAGRunnable" ->
            \* __call__: return self.func(*args, **kwargs)
            Call(c[2], x, fs)
      [] c[1] = "chained_func" ->
            \* return other(self.func(*args, **kwargs))
            LET inner == Call(c[2], x, fs)
                outer == Call(c[3], inner.out, fs)
            IN  [out |-> outer.out, trace |-> inner.trace \o outer.trace]

RunnableOff ==
    /\ rpc = "off"
    /\ rstages = <<>>
    /\ rx = 0
    /\ rpipe = <<>>
    /\ rbuilt = 0
    /\ rout = 0
    /\ rtrace = <<>>

RunnableInit ==
    /\ rpc = "new"
    /\ \E n \in 1 .. MaxStages : rstages \in [1 .. n -> StageFuncs]
    /\ rx \in Vals
    /\ rpipe = <<>>
    /\ rbuilt = 0
    /\ rout = 0
    /\ rtrace = <<>>

\* RAGRunnable(f)
Wrap ==
    /\ rpc = "new"
    /\ rpipe' = RAGRunnable(Stage(1))
    /\ rbuilt' = 1
    /\ rpc' = "built"
    /\ UNCHANGED <<rstages, rx, rout, rtrace>>

\* pipe | RAGRunnable(g), or pipe | g with g a plain callable
Compose ==
    /\ rpc = "built"
    /\ rbuilt < Len(rstages)
    /\ \E other \in {RAGRunnable(Stage(rbuilt + 1)), Stage(rbuilt + 1)} :
          rpipe' = Or(rpipe, other)
    /\ rbuilt' = rbuilt + 1
    /\ UNCHANGED <<rpc, rstages, rx, rout, rtrace>>

\* pipe | (RAGRunnable(g) | RAGRunnable(h))
ComposeGroup ==
    /\ rpc = "built"
    /\ rbuilt + 2 <= Len(rstages)
    /\ rpipe' = Or(rpipe, Or(RAGRunnable(Stage(rbuilt + 1)),
                             RAGRunnable(Stage(rbuilt + 2))))
    /\ rbuilt' = rbuilt + 2
    /\ UNCHANGED <<rpc, rstages, rx, rout, rtrace>>

\* pipe(x)
Invoke ==
    /\ rpc = "built"
    /\ rbuilt = Len(rstages)
    /\ LET r == Call(rpipe, rx, rstages)
       IN  /\ rout' = r.out
           /\ rtrace' = r.trace
    /\ rpc' = "done"
    /\ UNCHANGED <<rstages, rx, rpipe, rbuilt>>

RunnableNext ==
    \/ Wrap
    \/ Compose
    \/ ComposeGroup
    \/ Invoke

----------------------------------------------------------------------------
(* Claims about RAGRunnable, checked under SpecRunnable                     *)

\* the value after the first n functions of rstages, applied one after another
RECURSIVE AfterStages(_)
AfterStages(n) == IF n = 0 THEN rx ELSE rstages[n][AfterStages(n - 1)]

\* C7: (f | g)(x) = g(f(x)), and a chain of any length calls every stage
\* once, left to right, each with the single output of the stage before it.
C7_Composition ==
    rpc = "done" =>
        /\ Len(rstages) = 2 => rout = rstages[2][rstages[1][rx]]
        /\ rout = AfterStages(Len(rstages))
        /\ Len(rtrace) = Len(rstages)
        /\ \A i \in 1 .. Len(rtrace) :
              /\ rtrace[i].stage = i
              /\ rtrace[i].arg = AfterStages(i - 1)

C7_Witness ==
    /\ rpc = "done"
    /\ Len(rstages) = 3
    /\ rstages[1] = Inc /\ rstages[2] = Dbl /\ rstages[3] = Flip
    /\ rx = 1
    /\ rout = 1
    /\ Len(rtrace) = 3

----------------------------------------------------------------------------
(* RAGpipeline                                                              *)

\* how often compile() is called before the pipeline is used
MaxCompiles == 2

\* the three methods, by position in load | split | index
LoadPDFs == 1
SplitLoadedDocuments == 2
CreateVectorstore == 3

\* a bound method of the pipeline object
Method(i) == <<"method", i>>

\* an exception object: its class, its identity, and the identity of the
\* exception it was constructed from (0: none)
Exc(type, id, arg) == [type |-> type, id |-> id, arg |-> arg]

NoExc == Exc("none", 0, 0)

\* what the capabilities can return
FileInputs == {"filesA", "filesB"}
LoadedDocs == {"docsA", "docsB"}
Chunks     == {"chunksA", "chunksB"}
Indexes    == {"indexA", "indexB"}

\* what loader.load can raise
LoaderExcTypes == {"LoaderError", "ValueError"}

\* what the splitter and the vector store class can raise
StageExcTypes == {"RuntimeError"}

\* the methods a callable ends up calling, in call order
RECURSIVE CallOrder(_)
CallOrder(c) ==
    CASE c[1] = "method" -> <<c[2]>>
      [] c[1] = "RAGRunnable" -> CallOrder(c[2])
      [] c[1] = "chained_func" -> CallOrder(c[2]) \o CallOrder(c[3])

\* whether a | b finds an __or__: only a RAGRunnable defines one (nothing
\* defines __ror__)
SupportsOr(a) == a[1] = "RAGRunnable"

\* an except clause that catches every exception
CatchesAny(e) == TRUE

\* except LoaderError
Catches(e) == e.type = "LoaderError"

\* raise LoaderError(e)
Reraised(e, newId) == Exc("LoaderError", newId, e.id)

PipelineOff ==
    /\ ppc = "off"
    /\ pattrs = <<>>
    /\ pcompiles = 0
    /\ pmode = "none"
    /\ pfiles = ""
    /\ pplan = <<>>
    /\ parg = ""
    /\ ptrace = <<>>
    /\ pvectorstore = ""
    /\ presult = ""
    /\ pstageError = NoExc
    /\ perror = NoExc
    /\ plogged = 0
    /\ pnextId = 1

PipelineInit ==
    /\ ppc = "idle"
    /\ pattrs = [i \in 1 .. 3 |-> Method(i)]
    /\ pcompiles = 0
    /\ pmode = "none"
    /\ pfiles \in FileInputs
    /\ pplan = <<>>
    /\ parg = ""
    /\ ptrace = <<>>
    /\ pvectorstore = ""
    /\ presult = ""
    /\ pstageError = NoExc
    /\ perror = NoExc
    /\ plogged = 0
    /\ pnextId = 1

\* compile(): each method attribute is replaced by a RAGRunnable around it
Compile ==
    /\ ppc = "idle"
    /\ pcompiles < MaxCompiles
    /\ pattrs' = [i \in 1 .. 3 |-> RAGRunnable(pattrs[i])]
    /\ pcompiles' = pcompiles + 1
    /\ UNCHANGED <<ppc, pmode, pfiles, pplan, parg, ptrace, pvectorstore, presult,
                   pstageError, perror, plogged, pnextId>>

\* __call__ on attributes that support |: the pipeline is composed and called
CallComposed ==
    /\ ppc = "idle"
    /\ SupportsOr(pattrs[LoadPDFs])
    /\ LET first == Or(pattrs[LoadPDFs], pattrs[SplitLoadedDocuments])
           pipeline == Or(first, pattrs[CreateVectorstore])
       IN  pplan' = CallOrder(pipeline)
    /\ parg' = pfiles
    /\ pmode' = "invoke"
    /\ ppc' = "run"
    /\ UNCHANGED <<pattrs, pcompiles, pfiles, ptrace, pvectorstore, presult,
                   pstageError, perror, plogged, pnextId>>

\* __call__ on attributes that do not support |: the composition raises TypeError
CallUncomposable ==
    /\ ppc = "idle"
    /\ ~SupportsOr(pattrs[LoadPDFs])
    /\ pmode' = "invoke"
    /\ perror' = Exc("TypeError", pnextId, 0)
    /\ pnextId' = pnextId + 1
    /\ ppc' = "raised"
    /\ UNCHANGED <<pattrs, pcompiles, pfiles, pplan, parg, ptrace, pvectorstore,
                   presult, pstageError, plogged>>

\* the caller calls load_PDFs, split_loaded_documents, create_vectorstore by
\* hand, handing each the result of the one before
CallManually ==
    /\ ppc = "idle"
    /\ pplan' = CallOrder(pattrs[LoadPDFs]) \o CallOrder(pattrs[SplitLoadedDocuments])
                    \o CallOrder(pattrs[CreateVectorstore])
    /\ parg' = pfiles
    /\ pmode' = "manual"
    /\ ppc' = "run"
    /\ UNCHANGED <<pattrs, pcompiles, pfiles, ptrace, pvectorstore, presult,
                   pstageError, perror, plogged, pnextId>>

\* load_PDFs: the loader returns the loaded documents
LoadReturns ==
    /\ ppc = "run"
    /\ pplan # <<>> /\ Head(pplan) = LoadPDFs
    /\ \E docs \in LoadedDocs :
          /\ ptrace' = Append(ptrace, [stage |-> LoadPDFs, arg |-> parg, ret |-> docs])
          /\ parg' = docs
    /\ pplan' = Tail(pplan)
    /\ UNCHANGED <<ppc, pattrs, pcompiles, pmode, pfiles, pvectorstore, presult,
                   pstageError, perror, plogged, pnextId>>

\* load_PDFs: the loader raises; a caught error is logged and LoaderError(e)
\* is raised, any other error propagates
LoadRaises ==
    /\ ppc = "run"
    /\ pplan # <<>> /\ Head(pplan) = LoadPDFs
    /\ \E type \in LoaderExcTypes :
          LET e == Exc(type, pnextId, 0)
          IN  /\ pstageError' = e
              /\ IF Catches(e)
                 THEN /\ plogged' = plogged + 1
                      /\ perror' = Reraised(e, pnextId + 1)
                      /\ pnextId' = pnextId + 2
                 ELSE /\ plogged' = plogged
                      /\ perror' = e
                      /\ pnextId' = pnextId + 1
    /\ ptrace' = Append(ptrace, [stage |-> LoadPDFs, arg |-> parg, ret |-> "raised"])
    /\ ppc' = "raised"
    /\ UNCHANGED <<pattrs, pcompiles, pmode, pfiles, pplan, parg, pvectorstore, presult>>

\* split_loaded_documents: the splitter returns the chunks
SplitReturns ==
    /\ ppc = "run"
    /\ pplan # <<>> /\ Head(pplan) = SplitLoadedDocuments
    /\ \E chunks \in Chunks :
          /\ ptrace' = Append(ptrace, [stage |-> SplitLoadedDocuments, arg |-> parg,
                                       ret |-> chunks])
          /\ parg' = chunks
    /\ pplan' = Tail(pplan)
    /\ UNCHANGED <<ppc, pattrs, pcompiles, pmode, pfiles, pvectorstore, presult,
                   pstageError, perror, plogged, pnextId>>

\* create_vectorstore: from_documents returns the index, kept in self.vectorstore
IndexReturns ==
    /\ ppc = "run"
    /\ pplan # <<>> /\ Head(pplan) = CreateVectorstore
    /\ \E index \in Indexes :
          /\ ptrace' = Append(ptrace, [stage |-> CreateVectorstore, arg |-> parg,
                                       ret |-> index])
          /\ pvectorstore' = index
          /\ parg' = index
    /\ pplan' = Tail(pplan)
    /\ UNCHANGED <<ppc, pattrs, pcompiles, pmode, pfiles, presult, pstageError,
                   perror, plogged, pnextId>>

\* split_loaded_documents or create_vectorstore: the capability raises, and
\* nothing catches it
StageRaises ==
    /\ ppc = "run"
    /\ pplan # <<>> /\ Head(pplan) \in {SplitLoadedDocuments, CreateVectorstore}
    /\ \E type \in StageExcTypes :
          LET e == Exc(type, pnextId, 0)
          IN  /\ pstageError' = e
              /\ perror' = e
    /\ pnextId' = pnextId + 1
    /\ ptrace' = Append(ptrace, [stage |-> Head(pplan), arg |-> parg, ret |-> "raised"])
    /\ ppc' = "raised"
    /\ UNCHANGED <<pattrs, pcompiles, pmode, pfiles, pplan, parg, pvectorstore,
                   presult, plogged>>

\* the last call returned: its value is the result
PipelineReturns ==
    /\ ppc = "run"
    /\ pplan = <<>>
    /\ presult' = parg
    /\ ppc' = "done"
    /\ UNCHANGED <<pattrs, pcompiles, pmode, pfiles, pplan, parg, ptrace,
                   pvectorstore, pstageError, perror, plogged, pnextId>>

----------------------------------------------------------------------------
(* Claims about RAGpipeline, checked under SpecPipeline                     *)

\* load, split and index were each called once, in that order, each with the
\* result of the one before, and the index is what the call returned
LoadSplitIndex ==
    /\ ppc = "done"
    /\ Len(ptrace) = 3
    /\ ptrace[1].stage = LoadPDFs /\ ptrace[1].arg = pfiles
    /\ ptrace[2].stage = SplitLoadedDocuments /\ ptrace[2].arg = ptrace[1].ret
    /\ ptrace[3].stage = CreateVectorstore /\ ptrace[3].arg = ptrace[2].ret
    /\ presult = ptrace[3].ret

PipelineEnded == ppc \in {"done", "raised"}

\* C6: calling the pipeline object on files does what calling load_PDFs,
\* split_loaded_documents and create_vectorstore by hand does: unless one of
\* the three raises, each is called once, in order, with the result of the
\* one before, and the final index is returned.
C6_InvokeIsLoadSplitIndex ==
    (PipelineEnded /\ pmode = "invoke" /\ pstageError = NoExc) => LoadSplitIndex

\* the same holds of the manual calls, and of the call of a compiled pipeline
PipelineCompiledOrManual ==
    (PipelineEnded /\ pstageError = NoExc /\ (pmode = "manual" \/ pcompiles > 0))
        => LoadSplitIndex

\* C10 as claimed: whatever the loader raises in load_PDFs reaches the caller
\* as the same exception object, a LoaderError after being logged once.
C10_ReraisedUnchanged ==
    (ppc = "raised" /\ pstageError # NoExc /\ ptrace[Len(ptrace)].stage = LoadPDFs) =>
        /\ perror = pstageError
        /\ plogged = (IF pstageError.type = "LoaderError" THEN 1 ELSE 0)

\* C10 as amended: a LoaderError raised by the loader is logged once and a new
\* LoaderError, constructed from the caught one, reaches the caller (another
\* object of the same class); every other exception of a stage reaches the
\* caller as the same object, unlogged.
C10_LoaderErrorWrapped ==
    (ppc = "raised" /\ pstageError # NoExc) =>
        IF ptrace[Len(ptrace)].stage = LoadPDFs /\ pstageError.type = "LoaderError"
        THEN /\ perror.type = "LoaderError"
             /\ perror.id # pstageError.id
             /\ perror.arg = pstageError.id
             /\ plogged = 1
        ELSE /\ perror = pstageError
             /\ plogged = 0

C10_Witness ==
    /\ ppc = "raised"
    /\ pmode = "invoke"
    /\ pstageError.type = "LoaderError"
    /\ perror.type = "LoaderError"
    /\ perror.arg = pstageError.id
    /\ plogged = 1

----------------------------------------------------------------------------
(* The PDF loaders                                                          *)

\* the most files given to one load
MaxFiles == 2

\* the most pages of one PDF
MaxPages == 2

\* strings the code takes apart are sequences of characters
APdf     == <<"a", ".", "p", "d", "f">>
BTxt     == <<"b", ".", "t", "x", "t">>
CUpper   == <<"c", ".", "P", "D", "F">>
DTxtPdf  == <<"d", ".", "t", "x", "t", ".", "p", "d", "f">>
NoDot    == <<"p", "d", "f">>

Paths == {APdf, BTxt, CUpper, DTxtPdf, NoDot}

TagPdf   == <<"p", "d", "f">>
TagUpper == <<"P", "D", "F">>
TagMixed == <<"P", "d", "f">>
TagTxt   == <<"t", "x", "t">>

Tags == {TagPdf, TagUpper, TagMixed, TagTxt}

\* what page.extract_text() can return
PageTexts == {"Hello World", ""}

\* the pages of a PDF whose every page can be extracted: the text of each
PageLists == UNION {[1 .. n -> PageTexts] : n \in 0 .. MaxPages}

\* an exception of a loader: its class, its message and the string named in it
LoaderExc(type, msg, what) == [type |-> type, msg |-> msg, what |-> what]

NoLoaderExc == LoaderExc("none", "", <<>>)

\* the index of the last "." of a string, 0 when it has none
LastDot(str) ==
    LET dots == {i \in 1 .. Len(str) : str[i] = "."}
    IN  IF dots = {} THEN 0 ELSE CHOOSE i \in dots : \A j \in dots : j <= i

\* file_path.split(".")[-1]
Extension(file_path) == SubSeq(file_path, LastDot(file_path) + 1, Len(file_path))

LowerChar(c) ==
    CASE c = "P" -> "p"
      [] c = "D" -> "d"
      [] c = "F" -> "f"
      [] OTHER -> c

\* file_type.lower()
Lower(str) == [i \in 1 .. Len(str) |-> LowerChar(str[i])]

\* file_type.lower() == "pdf"
IsPdfTag(file_type) == Lower(file_type) = <<"p", "d", "f">>

\* the Documents of one PDF: one per page, page_number counted from 1
PageDocuments(source, pages) ==
    [i \in 1 .. Len(pages) |->
        [page_content |-> pages[i], source |-> source, page_number |-> i]]

----------------------------------------------------------------------------
(* LocalFileLoader                                                          *)

ExpectedTypes == {<<"p", "d", "f">>, <<"t", "x", "t">>}

\* file_paths as given: a list of paths, or a single path as a string
LocalInputs ==
    {<<"list", ps>> : ps \in UNION {[1 .. n -> Paths] : n \in 0 .. MaxFiles}}
        \cup {<<"str", path>> : path \in Paths}

LocalOff ==
    /\ lpc = "off"
    /\ linput = <<"list", <<>>>>
    /\ expected_file_type = <<>>
    /\ file_paths = <<>>
    /\ li = 0
    /\ lopened = <<>>
    /\ ldocuments = <<>>
    /\ lresult = <<>>
    /\ lerror = NoLoaderExc

LocalInit ==
    /\ lpc = "new"
    /\ linput \in LocalInputs
    /\ expected_file_type \in ExpectedTypes
    /\ file_paths = <<>>
    /\ li = 0
    /\ lopened = <<>>
    /\ ldocuments = <<>>
    /\ lresult = <<>>
    /\ lerror = NoLoaderExc

\* load begins: a single string becomes a one-element list
LocalStart ==
    /\ lpc = "new"
    /\ file_paths' = IF linput[1] = "str" THEN <<linput[2]>> ELSE linput[2]
    /\ ldocuments' = <<>>
    /\ li' = 1
    /\ lpc' = "loop"
    /\ UNCHANGED <<linput, expected_file_type, lopened, lresult, lerror>>

\* the next path has another extension: a mismatching path is skipped
LocalMismatchSkipped ==
    /\ lpc = "loop"
    /\ li <= Len(file_paths)
    /\ Extension(file_paths[li]) # expected_file_type
    /\ li' = li + 1
    /\ UNCHANGED <<lpc, linput, expected_file_type, file_paths, lopened, ldocuments,
                   lresult, lerror>>

\* the next path has another extension: ValueError
LocalMismatch ==
    /\ lpc = "loop"
    /\ li <= Len(file_paths)
    /\ Extension(file_paths[li]) # expected_file_type
    /\ lerror' = LoaderExc("ValueError", "Expected file type", Extension(file_paths[li]))
    /\ lpc' = "raised"
    /\ UNCHANGED <<linput, expected_file_type, file_paths, li, lopened, ldocuments,
                   lresult>>

\* the next path has the expected extension and is opened and read: one
\* Document per page
LocalReads ==
    /\ lpc = "loop"
    /\ li <= Len(file_paths)
    /\ Extension(file_paths[li]) = expected_file_type
    /\ lopened' = Append(lopened, file_paths[li])
    /\ \E pages \in PageLists :
          ldocuments' = ldocuments \o PageDocuments(file_paths[li], pages)
    /\ li' = li + 1
    /\ UNCHANGED <<lpc, linput, expected_file_type, file_paths, lresult, lerror>>

\* the next path has the expected extension and open() fails
LocalOpenFails ==
    /\ lpc = "loop"
    /\ li <= Len(file_paths)
    /\ Extension(file_paths[li]) = expected_file_type
    /\ lerror' = LoaderExc("FileNotFoundError", "open", file_paths[li])
    /\ lpc' = "raised"
    /\ UNCHANGED <<linput, expected_file_type, file_paths, li, lopened, ldocuments,
                   lresult>>

\* the next path is opened and PdfReader or a page's extract_text raises
LocalReadFails ==
    /\ lpc = "loop"
    /\ li <= Len(file_paths)
    /\ Extension(file_paths[li]) = expected_file_type
    /\ lopened' = Append(lopened, file_paths[li])
    /\ \E msg \in {"PdfReader", "extract_text"} :
          lerror' = LoaderExc("PdfReadError", msg, file_paths[li])
    /\ lpc' = "raised"
    /\ UNCHANGED <<linput, expected_file_type, file_paths, li, ldocuments, lresult>>

\* the for loop is over: return documents
LocalReturns ==
    /\ lpc = "loop"
    /\ li > Len(file_paths)
    /\ lresult' = ldocuments
    /\ lpc' = "returned"
    /\ UNCHANGED <<linput, expected_file_type, file_paths, li, lopened, ldocuments,
                   lerror>>

----------------------------------------------------------------------------
(* Claims about LocalFileLoader, checked under SpecLocal                    *)

\* the paths as a list, whichever way they were given
GivenPaths == IF linput[1] = "str" THEN <<linput[2]>> ELSE linput[2]

Mismatching == {i \in 1 .. Len(GivenPaths) : Extension(GivenPaths[i]) # expected_file_type}

FirstMismatch == CHOOSE i \in Mismatching : \A j \in Mismatching : i <= j

\* C8 as claimed: when some path has another extension than expected, load
\* fails and has opened no file at all.
C8_FailsBeforeAnyOpen ==
    (Mismatching # {} /\ lpc \in {"returned", "raised"}) =>
        /\ lpc = "raised"
        /\ lopened = <<>>

\* C8 as amended: when some path has another extension than expected, load
\* never returns, and it opens neither the first mismatching path nor any path
\* after it; it ends with the type-mismatch error once the paths before that
\* one (all of the expected type) have been opened and read.
C8_FailsBeforeMismatchOpened ==
    Mismatching # {} =>
        /\ lpc # "returned"
        /\ Len(lopened) < FirstMismatch
        /\ lopened = SubSeq(GivenPaths, 1, Len(lopened))
        /\ (lpc = "raised" /\ lerror.type = "ValueError") =>
              /\ lopened = SubSeq(GivenPaths, 1, FirstMismatch - 1)
              /\ lerror.what = Extension(GivenPaths[FirstMismatch])
        /\ (lpc = "raised" /\ FirstMismatch = 1) =>
              /\ lopened = <<>>
              /\ lerror.type = "ValueError"

C8_Witness ==
    /\ lpc = "raised"
    /\ linput = <<"list", <<APdf, BTxt>>>>
    /\ expected_file_type = <<"p", "d", "f">>
    /\ lopened = <<APdf>>
    /\ lerror.type = "ValueError"

----------------------------------------------------------------------------
(* BytesFilePDFLoader                                                       *)

BytesInputs == UNION {[1 .. n -> Tags] : n \in 0 .. MaxFiles}

BytesOff ==
    /\ bpc = "off"
    /\ bfiles = <<>>
    /\ bi = 0
    /\ bparsed = 0
    /\ bdocuments = <<>>
    /\ bresult = <<>>
    /\ berror = NoLoaderExc

BytesInit ==
    /\ bpc = "loop"
    /\ bfiles \in BytesInputs
    /\ bi = 1
    /\ bparsed = 0
    /\ bdocuments = <<>>
    /\ bresult = <<>>
    /\ berror = NoLoaderExc

\* the next pair is tagged pdf and its bytes are read: one Document per page
BytesReads ==
    /\ bpc = "loop"
    /\ bi <= Len(bfiles)
    /\ IsPdfTag(bfiles[bi])
    /\ bparsed' = bparsed + 1
    /\ \E pages \in PageLists :
          bdocuments' = bdocuments \o PageDocuments(bfiles[bi], pages)
    /\ bi' = bi + 1
    /\ UNCHANGED <<bpc, bfiles, bresult, berror>>

\* the next pair is tagged pdf and PdfReader or a page's extract_text raises
BytesReadFails ==
    /\ bpc = "loop"
    /\ bi <= Len(bfiles)
    /\ IsPdfTag(bfiles[bi])
    /\ bparsed' = bparsed + 1
    /\ \E msg \in {"PdfReader", "extract_text"} :
          berror' = LoaderExc("PdfReadError", msg, bfiles[bi])
    /\ bpc' = "raised"
    /\ UNCHANGED <<bfiles, bi, bdocuments, bresult>>

\* the next pair has another tag: an unsupported pair is skipped
BytesUnsupportedSkipped ==
    /\ bpc = "loop"
    /\ bi <= Len(bfiles)
    /\ ~IsPdfTag(bfiles[bi])
    /\ bi' = bi + 1
    /\ UNCHANGED <<bpc, bfiles, bparsed, bdocuments, bresult, berror>>

\* the next pair has another tag: ValueError
BytesUnsupported ==
    /\ bpc = "loop"
    /\ bi <= Len(bfiles)
    /\ ~IsPdfTag(bfiles[bi])
    /\ berror' = LoaderExc("ValueError", "Unsupported file type", bfiles[bi])
    /\ bpc' = "raised"
    /\ UNCHANGED <<bfiles, bi, bparsed, bdocuments, bresult>>

\* the for loop is over: return documents
BytesReturns ==
    /\ bpc = "loop"
    /\ bi > Len(bfiles)
    /\ bresult' = bdocuments
    /\ bpc' = "returned"
    /\ UNCHANGED <<bfiles, bi, bparsed, bdocuments, berror>>

----------------------------------------------------------------------------
(* Claims about BytesFilePDFLoader, checked under SpecBytes                 *)

\* "pdf" in any mix of upper and lower case
PdfInAnyCase(tag) ==
    /\ Len(tag) = 3
    /\ tag[1] \in {"p", "P"}
    /\ tag[2] \in {"d", "D"}
    /\ tag[3] \in {"f", "F"}

Unsupported == {i \in 1 .. Len(bfiles) : ~PdfInAnyCase(bfiles[i])}

FirstUnsupported == CHOOSE i \in Unsupported : \A j \in Unsupported : i <= j

\* C9: when some tag of the input is not "pdf" in any case, load returns no
\* Documents: it never returns, and unless reading an earlier PDF failed it
\* ends with the unsupported-type error naming the first such tag, however
\* many valid PDFs came before it.
C9_UnsupportedTagFails ==
    Unsupported # {} =>
        /\ bpc # "returned"
        /\ bresult = <<>>
        /\ bparsed < FirstUnsupported
        /\ (bpc = "raised" /\ bparsed = FirstUnsupported - 1
                /\ berror.type # "PdfReadError") =>
              /\ berror.type = "ValueError"
              /\ berror.msg = "Unsupported file type"
              /\ berror.what = bfiles[FirstUnsupported]
        /\ (bpc = "loop" /\ bi = FirstUnsupported) => ENABLED BytesUnsupported

C9_Witness ==
    /\ bpc = "raised"
    /\ bfiles = <<TagUpper, TagTxt>>
    /\ bparsed = 1
    /\ Len(bdocuments) = MaxPages
    /\ berror.type = "ValueError"
    /\ berror.what = TagTxt
    /\ bresult = <<>>

\* C13: a page's extraction failure does not abort the load: no load ends
\* with the exception that a page's extract_text raised (the load goes on and
\* returns one Document per page, the failed page's content empty).
C13_ExtractionFailureTolerated ==
    ~(/\ bpc = "raised"
      /\ berror.type = "PdfReadError"
      /\ berror.msg = "extract_text"
      /\ bresult = <<>>)

----------------------------------------------------------------------------
(* URLLoader                                                                *)

\* the most remote references given to one load
MaxRefs == 3

\* what a GET of a reference's URL does: answer 200 with the file's bytes,
\* answer with an error status, or fail in transport
Fates == {"pdfBytesA", "pdfBytesB", "http_error", "timeout"}

Succeeds(fate) == fate \in {"pdfBytesA", "pdfBytesB"}

\* the argument of load: one URL string, or (as RAGpipeline.load_PDFs hands
\* it on) the whole list of references
URLInputs ==
    {<<"str", <<fate>>>> : fate \in Fates}
        \cup {<<"list", refs>> : refs \in UNION {[1 .. n -> Fates] : n \in 1 .. MaxRefs}}

NotReturned == [kind |-> "none", content |-> ""]
ReturnedNone == [kind |-> "None", content |-> ""]
ReturnedBytes(content) == [kind |-> "bytes", content |-> content]

URLOff ==
    /\ upc = "off"
    /\ uverbose = FALSE
    /\ uurl = <<"str", <<>>>>
    /\ ugets = 0
    /\ udebugLogged = 0
    /\ uerrorLogged = 0
    /\ uresult = NotReturned
    /\ uerror = NoLoaderExc

URLInit ==
    /\ upc = "new"
    /\ uverbose \in BOOLEAN
    /\ uurl \in URLInputs
    /\ ugets = 0
    /\ udebugLogged = 0
    /\ uerrorLogged = 0
    /\ uresult = NotReturned
    /\ uerror = NoLoaderExc

\* load(url) of one URL that answers 200: response.content is returned
URLLoadOk ==
    /\ upc = "new"
    /\ uurl[1] = "str"
    /\ Succeeds(uurl[2][1])
    /\ ugets' = ugets + 1
    /\ udebugLogged' = IF uverbose THEN udebugLogged + 1 ELSE udebugLogged
    /\ uresult' = ReturnedBytes(uurl[2][1])
    /\ upc' = "returned"
    /\ UNCHANGED <<uverbose, uurl, uerrorLogged, uerror>>

\* load(url) of one URL whose GET raises, or whose status makes
\* raise_for_status raise: the RequestException is logged, None is returned
URLLoadFails ==
    /\ upc = "new"
    /\ uurl[1] = "str"
    /\ ~Succeeds(uurl[2][1])
    /\ ugets' = ugets + 1
    /\ uerrorLogged' = uerrorLogged + 1
    /\ uresult' = ReturnedNone
    /\ upc' = "returned"
    /\ UNCHANGED <<uverbose, uurl, udebugLogged, uerror>>

\* load(url) of a list: requests.get is called once with the list itself,
\* which names no URL scheme it can fetch (a RequestException): logged, None
URLLoadList ==
    /\ upc = "new"
    /\ uurl[1] = "list"
    /\ ugets' = ugets + 1
    /\ uerrorLogged' = uerrorLogged + 1
    /\ uresult' = ReturnedNone
    /\ upc' = "returned"
    /\ UNCHANGED <<uverbose, uurl, udebugLogged, uerror>>

----------------------------------------------------------------------------
(* Claims about URLLoader, checked under SpecURL                            *)

\* N: the references given; M: those whose GET succeeds
RefCount == Len(uurl[2])

SuccessCount == Cardinality({i \in 1 .. Len(uurl[2]) : Succeeds(uurl[2][i])})

URLEnded == upc \in {"returned", "raised"}

\* C5: over N references of which M can be fetched, load raises LoaderError
\* when M = 0, and when 1 <= M < N it raises nothing and returns the Documents
\* of the M fetched files.
C5_PartialTolerance ==
    URLEnded =>
        /\ SuccessCount = 0 =>
              /\ upc = "raised"
              /\ uerror.type = "LoaderError"
        /\ (1 <= SuccessCount /\ SuccessCount < RefCount) =>
              /\ upc = "returned"
              /\ uresult.kind = "documents"

----------------------------------------------------------------------------
(* QuizBuilder.validate_response on any response                            *)

\* the most entries of a choices value
MaxChoices == 2

\* keys and values of a choices mapping
Scalars == {PyStr("A"), PyStr("B"), PyInt("1")}

Entries == {Entry(k, v) : k \in Scalars, v \in Scalars}

\* the items of a value stored under 'choices'
EntryLists == UNION {[1 .. n -> Entries] : n \in 0 .. MaxChoices}

\* the keys of a mapping are distinct
DistinctKeys(items) ==
    \A i, j \in 1 .. Len(items) : items[i].key = items[j].key => i = j

\* the keys a response dict can have
ResponseKeys == SUBSET (RequiredKeys \cup {"hint"})

\* the responses validate_response is tried on: dicts with any of the keys,
\* whose 'choices' (when present) is a dict, a list or a string, and values
\* that are no dict at all
Responses ==
    {Candidate("dict", keys, "none", <<>>) : keys \in {ks \in ResponseKeys : "choices" \notin ks}}
        \cup {Candidate("dict", keys, "str", <<>>) : keys \in {ks \in ResponseKeys : "choices" \in ks}}
        \cup {Candidate("dict", keys, "list", items) :
                 keys \in {ks \in ResponseKeys : "choices" \in ks}, items \in EntryLists}
        \cup {Candidate("dict", keys, "dict", items) :
                 keys \in {ks \in ResponseKeys : "choices" \in ks},
                 items \in {it \in EntryLists : DistinctKeys(it)}}
        \cup {Candidate(kind, {}, "none", <<>>) : kind \in {"str", "list", "none"}}

ValidateOff ==
    /\ vpc = "off"
    /\ vresponse = NotADict
    /\ vresult = FALSE

ValidateInit ==
    /\ vpc = "new"
    /\ vresponse \in Responses
    /\ vresult = FALSE

\* validate_response(response): nothing inside the try raises on these
\* values, so the call returns
Validate ==
    /\ vpc = "new"
    /\ vresult' = validate_response(vresponse)
    /\ vpc' = "returned"
    /\ UNCHANGED vresponse

----------------------------------------------------------------------------
(* Claims about validate_response, checked under SpecValidate               *)

\* C11: validate_response returns true exactly when the response is a mapping
\* that has the keys question, choices, answer and explanation (other keys do
\* not matter) and whose choices is a mapping with only string keys and string
\* values; on every other response it returns false, and it never raises.
C11_ValidateShape ==
    /\ vpc # "raised"
    /\ vpc = "returned" =>
          (vresult <=>
              /\ vresponse.kind = "dict"
              /\ \A k \in {"question", "choices", "answer", "explanation"} :
                    k \in vresponse.keys
              /\ vresponse.choicesKind = "dict"
              /\ ~\E i \in 1 .. Len(vresponse.choices) :
                    \/ vresponse.choices[i].key.ty # "str"
                    \/ vresponse.choices[i].value.ty # "str")

C11_Witness ==
    /\ vpc = "returned"
    /\ vresult
    /\ "hint" \in vresponse.keys
    /\ Len(vresponse.choices) = MaxChoices

----------------------------------------------------------------------------
(* TextOrPDFLoader                                                          *)

\* the most pages of the uploaded PDF
MaxTextPages == 2

\* a string is a sequence of pieces; none marks Python's None
NoneValue == [none |-> TRUE, s |-> <<>>]
StrValue(s) == [none |-> FALSE, s |-> s]

\* the text argument: None, "" or a text
TextInputs == {NoneValue, StrValue(<<>>), StrValue(<<"Sample text">>)}

\* what page.extract_text() does: returns None, "" or a text, or raises
PageResults == {[kind |-> "returns", value |-> v] :
                    v \in {NoneValue, StrValue(<<>>), StrValue(<<"Page 1 content">>),
                           StrValue(<<"Page 2 content">>)}}
                   \cup {[kind |-> "raises", value |-> NoneValue]}

\* the file argument: None, or an upload that PdfReader can or cannot read
UploadInputs ==
    {[given |-> FALSE, readable |-> FALSE, pages |-> <<>>],
     [given |-> TRUE, readable |-> FALSE, pages |-> <<>>]}
        \cup {[given |-> TRUE, readable |-> TRUE, pages |-> ps] :
                 ps \in UNION {[1 .. n -> PageResults] : n \in 0 .. MaxTextPages}}

\* if self.text / elif self.file: None and "" are false
Truthy(v) == ~v.none /\ v.s # <<>>

\* page.extract_text() or ""
TextOrEmpty(v) == IF Truthy(v) THEN v.s ELSE <<>>

\* a join that puts the pages in reverse order
RECURSIVE Join_reversed(_)
Join_reversed(pages) ==
    IF pages = <<>> THEN <<>>
    ELSE Join_reversed(Tail(pages)) \o TextOrEmpty(Head(pages).value)

\* "".join(page.extract_text() or "" for page in pdf_reader.pages)
RECURSIVE Join(_)
Join(pages) ==
    IF pages = <<>> THEN <<>>
    ELSE TextOrEmpty(Head(pages).value) \o Join(Tail(pages))

\* whether PdfReader and every extract_text of the file succeed
FileReads(file) ==
    /\ file.readable
    /\ \A i \in 1 .. Len(file.pages) : file.pages[i].kind = "returns"

TextOff ==
    /\ tpc = "off"
    /\ ttext = NoneValue
    /\ tfile = [given |-> FALSE, readable |-> FALSE, pages |-> <<>>]
    /\ tresult = NoneValue
    /\ terror = NoLoaderExc

TextInit ==
    /\ tpc = "new"
    /\ ttext \in TextInputs
    /\ tfile \in UploadInputs
    /\ tresult = NoneValue
    /\ terror = NoLoaderExc

\* if self.text: return self.text
TextLoadText ==
    /\ tpc = "new"
    /\ Truthy(ttext)
    /\ tresult' = StrValue(ttext.s)
    /\ tpc' = "returned"
    /\ UNCHANGED <<ttext, tfile, terror>>

\* elif self.file: the pages' texts, joined
TextLoadFile ==
    /\ tpc = "new"
    /\ ~Truthy(ttext)
    /\ tfile.given
    /\ FileReads(tfile)
    /\ tresult' = StrValue(Join(tfile.pages))
    /\ tpc' = "returned"
    /\ UNCHANGED <<ttext, tfile, terror>>

\* elif self.file: PdfReader or a page's extract_text raises
TextLoadFileFails ==
    /\ tpc = "new"
    /\ ~Truthy(ttext)
    /\ tfile.given
    /\ ~FileReads(tfile)
    /\ terror' = LoaderExc("PdfReadError",
                           IF tfile.readable THEN "extract_text" ELSE "PdfReader", <<>>)
    /\ tpc' = "raised"
    /\ UNCHANGED <<ttext, tfile, tresult>>

\* else: raise ValueError
TextLoadNothing ==
    /\ tpc = "new"
    /\ ~Truthy(ttext)
    /\ ~tfile.given
    /\ terror' = LoaderExc("ValueError",
                           "No text or file provided for question generation", <<>>)
    /\ tpc' = "raised"
    /\ UNCHANGED <<ttext, tfile, tresult>>

----------------------------------------------------------------------------
(* Claims about TextOrPDFLoader, checked under SpecText                     *)

TextEnded == tpc \in {"returned", "raised"}

\* the texts of the first n pages, one after another (None counts as "")
RECURSIVE PagesUpTo(_)
PagesUpTo(n) ==
    IF n = 0 THEN <<>>
    ELSE PagesUpTo(n - 1) \o
            (IF tfile.pages[n].value.none THEN <<>> ELSE tfile.pages[n].value.s)

\* what load does once it is decided that the text counts as provided or not
LoadsAs(textProvided) ==
    IF textProvided
    THEN /\ tpc = "returned"
         /\ tresult = StrValue(ttext.s)
    ELSE IF tfile.given
    THEN FileReads(tfile) =>
            /\ tpc = "returned"
            /\ tresult = StrValue(PagesUpTo(Len(tfile.pages)))
    ELSE /\ tpc = "raised"
         /\ terror.type = "ValueError"
         /\ terror.msg = "No text or file provided for question generation"

\* C12 as claimed: a text that is given (not None) is returned unchanged,
\* whether or not a file is given; with only a file the pages' texts are
\* returned joined in page order; with neither, ValueError is raised.
C12_TextProvided == TextEnded => LoadsAs(~ttext.none)

\* C12 as amended: a non-empty text is returned unchanged, whether or not a
\* file is given; with no text or the empty text, a file's pages' texts are
\* returned joined in page order, and with no file ValueError is raised.
C12_TextNonEmpty == TextEnded => LoadsAs(~ttext.none /\ ttext.s # <<>>)

C12_Witness ==
    /\ tpc = "returned"
    /\ ttext = StrValue(<<>>)
    /\ tfile.given
    /\ Len(tfile.pages) = 2
    /\ tresult = StrValue(<<"Page 1 content", "Page 2 content">>)

----------------------------------------------------------------------------
(* Specifications                                                           *)

QuizOff ==
    /\ qpc = "off"
    /\ num_questions = 0
    /\ generated_questions = <<>>
    /\ attempts = 0
    /\ max_attempts = 0
    /\ chainCalls = 0
    /\ compileCalls = 0
    /\ deleteCalls = 0
    /\ chainCallsAtDelete = 0
    /\ wellFormedSeen = 0
    /\ validHistory = <<>>
    /\ qresult = NoResult

Init == QuizInit /\ RunnableOff /\ PipelineOff /\ LocalOff /\ BytesOff /\ URLOff
        /\ ValidateOff /\ TextOff

notQuiz == <<rvars, pvars, lvars, bvars, uvars, vvars, tvars>>

Next ==
    \/ CapExceeded /\ UNCHANGED notQuiz
    \/ Enter /\ UNCHANGED notQuiz
    \/ Iterate /\ UNCHANGED notQuiz
    \/ ChainRaises /\ UNCHANGED notQuiz
    \/ ExitLoop /\ UNCHANGED notQuiz
    \/ DeleteCollection /\ UNCHANGED notQuiz
    \/ Return /\ UNCHANGED notQuiz

Spec == Init /\ [][Next]_vars

InitRunnable ==
    RunnableInit /\ QuizOff /\ PipelineOff /\ LocalOff /\ BytesOff /\ URLOff
        /\ ValidateOff /\ TextOff

notRunnable == <<qvars, pvars, lvars, bvars, uvars, vvars, tvars>>

NextRunnable ==
    \/ Wrap /\ UNCHANGED notRunnable
    \/ Compose /\ UNCHANGED notRunnable
    \/ ComposeGroup /\ UNCHANGED notRunnable
    \/ Invoke /\ UNCHANGED notRunnable

SpecRunnable == InitRunnable /\ [][NextRunnable]_vars

InitPipeline ==
    PipelineInit /\ QuizOff /\ RunnableOff /\ LocalOff /\ BytesOff /\ URLOff
        /\ ValidateOff /\ TextOff

notPipeline == <<qvars, rvars, lvars, bvars, uvars, vvars, tvars>>

NextPipeline ==
    \/ Compile /\ UNCHANGED notPipeline
    \/ CallComposed /\ UNCHANGED notPipeline
    \/ CallUncomposable /\ UNCHANGED notPipeline
    \/ CallManually /\ UNCHANGED notPipeline
    \/ LoadReturns /\ UNCHANGED notPipeline
    \/ LoadRaises /\ UNCHANGED notPipeline
    \/ SplitReturns /\ UNCHANGED notPipeline
    \/ IndexReturns /\ UNCHANGED notPipeline
    \/ StageRaises /\ UNCHANGED notPipeline
    \/ PipelineReturns /\ UNCHANGED notPipeline

SpecPipeline == InitPipeline /\ [][NextPipeline]_vars

InitLocal ==
    LocalInit /\ QuizOff /\ RunnableOff /\ PipelineOff /\ BytesOff /\ URLOff
        /\ ValidateOff /\ TextOff

notLocal == <<qvars, rvars, pvars, bvars, uvars, vvars, tvars>>

NextLocal ==
    \/ LocalStart /\ UNCHANGED notLocal
    \/ LocalMismatch /\ UNCHANGED notLocal
    \/ LocalReads /\ UNCHANGED notLocal
    \/ LocalOpenFails /\ UNCHANGED notLocal
    \/ LocalReadFails /\ UNCHANGED notLocal
    \/ LocalReturns /\ UNCHANGED notLocal

SpecLocal == InitLocal /\ [][NextLocal]_vars

InitBytes ==
    BytesInit /\ QuizOff /\ RunnableOff /\ PipelineOff /\ LocalOff /\ URLOff
        /\ ValidateOff /\ TextOff

notBytes == <<qvars, rvars, pvars, lvars, uvars, vvars, tvars>>

NextBytes ==
    \/ BytesReads /\ UNCHANGED notBytes
    \/ BytesReadFails /\ UNCHANGED notBytes
    \/ BytesUnsupported /\ UNCHANGED notBytes
    \/ BytesReturns /\ UNCHANGED notBytes

SpecBytes == InitBytes /\ [][NextBytes]_vars

InitURL ==
    URLInit /\ QuizOff /\ RunnableOff /\ PipelineOff /\ LocalOff /\ BytesOff
        /\ ValidateOff /\ TextOff

notURL == <<qvars, rvars, pvars, lvars, bvars, vvars, tvars>>

NextURL ==
    \/ URLLoadOk /\ UNCHANGED notURL
    \/ URLLoadFails /\ UNCHANGED notURL
    \/ URLLoadList /\ UNCHANGED notURL

SpecURL == InitURL /\ [][NextURL]_vars

InitValidate ==
    ValidateInit /\ QuizOff /\ RunnableOff /\ PipelineOff /\ LocalOff /\ BytesOff
        /\ URLOff /\ TextOff

notValidate == <<qvars, rvars, pvars, lvars, bvars, uvars, tvars>>

NextValidate ==
    \/ Validate /\ UNCHANGED notValidate

SpecValidate == InitValidate /\ [][NextValidate]_vars

InitText ==
    TextInit /\ QuizOff /\ RunnableOff /\ PipelineOff /\ LocalOff /\ BytesOff
        /\ URLOff /\ ValidateOff

notText == <<qvars, rvars, pvars, lvars, bvars, uvars, vvars>>

NextText ==
    \/ TextLoadText /\ UNCHANGED notText
    \/ TextLoadFile /\ UNCHANGED notText
    \/ TextLoadFileFails /\ UNCHANGED notText
    \/ TextLoadNothing /\ UNCHANGED notText

SpecText == InitText /\ [][NextText]_vars

=============================================================================
